---- MODULE Spec2Model ----
(***************************************************************************)
(* Marketplace backend of src/api_code/main.py: the relational store       *)
(* behind the single shared psycopg2 connection, and one action per HTTP   *)
(* handler.  The connection is in one transaction at a time: `db` is what  *)
(* statements on the connection read and write, `committed` is what the    *)
(* last COMMIT left, and txStatus is the connection's transaction status.  *)
(***************************************************************************)
EXTENDS Integers, Sequences, FiniteSets, TLC

VARIABLES
    db,         \* the tables as seen through the shared connection
    committed,  \* the tables as of the last commit
    txStatus,   \* "IDLE" | "INTRANS" | "INERROR" (psycopg2 transaction status)
    now,        \* datetime.now(), in days
    last,       \* the last finished request: [op, status]
    served,     \* number of requests received so far
    pc,         \* SpecConc: position of each in-flight request
    req         \* SpecConc: arguments of each in-flight request

vars == <<db, committed, txStatus, now, last, served, pc, req>>

-----------------------------------------------------------------------------
(* Bounds of the model *)

MaxRequests == 4        \* requests the process receives
MaxUsuarios == 5        \* user rows ever created
MaxServicios == 3       \* service rows ever created
MaxPropuestas == 4      \* proposal rows ever created
MaxNow == 6             \* last day the clock reaches
MaxThreads == 2         \* requests the thread pool runs at the same time

-----------------------------------------------------------------------------
(* Values *)

NULL == -1              \* SQL NULL / Python None
BadId == 0              \* an id string the store cannot cast to the id type

UsuarioIds == 1..MaxUsuarios
ServicioIds == 1..MaxServicios
PropuestaIds == 1..MaxPropuestas
Threads == 1..MaxThreads

Precios == {10, 20}                 \* precio_oferta values
Calificaciones == {3, 4, 5}         \* calificacion values sent by clients
Perfiles == {"a", "b"}              \* (nombre, apellidos, telefono, foto) tuples
Fichas == {"f", "g"}                \* (bio, experiencia, tarifa, documentos) tuples
Domicilios == {"d", "e"}            \* (calle, colonia, cp, ciudad, ...) tuples

\* HTTP status of the mapped errors (spec section 7)
OK == 200
DuplicateProposal == 400
InvalidCredentials == 401
AccountLocked == 403
NotFound == 404
InvalidCode == 400
DuplicateEmail == 400
InternalError == 500

-----------------------------------------------------------------------------
(* Pure helpers *)

RECURSIVE Gcd(_, _)
Gcd(a, b) == IF b = 0 THEN a ELSE Gcd(b, a % b)

RECURSIVE SumOver(_, _)
SumOver(f, S) ==
    IF S = {} THEN 0
    ELSE LET x == CHOOSE y \in S : TRUE IN f[x] + SumOver(f, S \ {x})

Max(S) == IF S = {} THEN 0 ELSE CHOOSE x \in S : \A y \in S : y <= x

\* a table is a function from the ids of its rows to the rows
Insert(t, id, row) == (id :> row) @@ t
Delete(t, ids) == [x \in (DOMAIN t) \ ids |-> t[x]]
NextId(t) == Max(DOMAIN t) + 1

\* float(AVG(calificacion) or 0): the quotient sum/count in lowest terms,
\* <<0, 1>> when there is no row to average
Promedio(sum, count) ==
    IF count = 0 THEN <<0, 1>>
    ELSE LET g == Gcd(sum, count) IN <<sum \div g, count \div g>>

-----------------------------------------------------------------------------
(* Passwords.  A password is <<first 72 characters, the rest>>; bcrypt sees *)
(* only the first part.                                                     *)

Sales == {"s1", "s2"}                       \* bcrypt.gensalt() outcomes

SinPassword == <<>>                         \* password_nuevo: None

Truncar72(password_plana) == password_plana[1]

encriptar_password(password_plana, salt) == <<salt, Truncar72(password_plana)>>

\* a check that accepts every password
verificar_password_siempre(password_plana, password_hash) == TRUE

verificar_password(password_plana, password_hash) ==
    Truncar72(password_plana) = password_hash[2]

Codigos == {111111, 222222}                 \* generar_codigo_verificacion() outcomes

-----------------------------------------------------------------------------
(* Rows *)

UsuarioRow(correo, hash, perfil, admin, codigo) ==
    [correo_electronico |-> correo, password_hash |-> hash, perfil |-> perfil,
     activo |-> TRUE, es_admin |-> admin, codigo_verificacion |-> codigo,
     bloqueado_hasta |-> NULL]

\* column defaults of detalles_trabajador for the columns the INSERT omits
DetalleTrabajadorRow(ficha, oficios) ==
    [ficha |-> ficha, calificacion_promedio |-> <<0, 1>>, total_evaluaciones |-> 0,
     validado_por_admin |-> FALSE, oficios |-> oficios]

DetalleClienteRow(domicilio) == [domicilio |-> domicilio]

\* the state a new request gets from the column default
EstadoInicial == "SOLICITADO"

\* trabajador_id and calificacion are not in the INSERT and start NULL
ServicioRow(cliente_id, precio_estimado) ==
    [cliente_id |-> cliente_id, estado |-> EstadoInicial, trabajador_id |-> NULL,
     precio_estimado |-> precio_estimado, calificacion |-> NULL]

\* aceptada defaults to FALSE
PropuestaRow(servicio_id, trabajador_id, precio_oferta) ==
    [servicio_id |-> servicio_id, trabajador_id |-> trabajador_id,
     precio_oferta |-> precio_oferta, aceptada |-> FALSE]

Empty == [x \in {} |-> NULL]

\* The store when the process starts serving: the default admin of the
\* start-up code and what earlier runs left: one client, two workers, and two
\* jobs of worker 3 that were hired through proposals 1 and 2, finished and
\* rated 5 and 3.
StoreInicial ==
    [usuarios |->
        (1 :> UsuarioRow("admin@sistema.com", <<"s1", "admin123">>, "a", TRUE, NULL))
        @@ (2 :> UsuarioRow("c@x", <<"s1", "p">>, "a", FALSE, 111111))
        @@ (3 :> UsuarioRow("t1@x", <<"s1", "p">>, "a", FALSE, 111111))
        @@ (4 :> UsuarioRow("t2@x", <<"s2", "q">>, "a", FALSE, 222222)),
     detalles_cliente |-> (2 :> DetalleClienteRow("d")),
     detalles_trabajador |->
        (3 :> [DetalleTrabajadorRow("f", {1}) EXCEPT
                    !.calificacion_promedio = <<4, 1>>, !.total_evaluaciones = 2])
        @@ (4 :> DetalleTrabajadorRow("f", {1})),
     servicios |->
        (1 :> [ServicioRow(2, NULL) EXCEPT !.estado = "TERMINADO", !.trabajador_id = 3,
                    !.precio_estimado = 10, !.calificacion = 5])
        @@ (2 :> [ServicioRow(2, NULL) EXCEPT !.estado = "TERMINADO", !.trabajador_id = 3,
                    !.precio_estimado = 20, !.calificacion = 3]),
     propuestas |->
        (1 :> [PropuestaRow(1, 3, 10) EXCEPT !.aceptada = TRUE])
        @@ (2 :> [PropuestaRow(2, 3, 20) EXCEPT !.aceptada = TRUE])]

Init ==
    /\ db = StoreInicial
    /\ committed = StoreInicial
    /\ txStatus = "IDLE"
    /\ now = 0
    /\ last = [op |-> "lifespan", status |-> OK]
    /\ served = 0
    /\ pc = [t \in Threads |-> "idle"]
    /\ req = [t \in Threads |-> <<>>]

-----------------------------------------------------------------------------
(* The shared connection *)

\* a statement on a connection whose transaction already failed raises
\* InFailedSqlTransaction
Poisoned == txStatus = "INERROR"

\* the handler's reply
Replies(op, status) ==
    /\ served < MaxRequests
    /\ served' = served + 1
    /\ last' = [op |-> op, status |-> status]

\* conn.commit(): what the connection wrote becomes the committed store
Commits(op, args, nuevo, status) ==
    /\ db' = nuevo
    /\ committed' = nuevo
    /\ txStatus' = "IDLE"
    /\ Replies(op, status)

\* conn.rollback() in the handler's except clause, then the mapped error
RollsBack(op, args, status) ==
    /\ db' = committed
    /\ UNCHANGED committed
    /\ txStatus' = "IDLE"
    /\ Replies(op, status)

\* the handler returns or raises after a successful statement, with neither
\* commit nor rollback: the transaction its first statement began stays open
LeavesOpen(op, args, status) ==
    /\ UNCHANGED <<db, committed>>
    /\ txStatus' = "INTRANS"
    /\ Replies(op, status)

\* a statement failed and the handler's except clause does not roll back
LeavesAborted(op, args, status) ==
    /\ UNCHANGED <<db, committed>>
    /\ txStatus' = "INERROR"
    /\ Replies(op, status)

\* `except Exception as e: ...; raise HTTPException(500, ...)`: whatever the
\* try block raised, an HTTPException it raised itself included, becomes 500
ExceptException(raised) == InternalError

\* `except HTTPException as e: raise e`: the handler's own error passes through
ExceptHTTPException(raised) == raised

-----------------------------------------------------------------------------
(* Marketplace workflow: statements *)

\* INSERT INTO servicios (...) VALUES (...) RETURNING id
InsertServicio(store, datos) ==
    [store EXCEPT !.servicios =
        Insert(@, NextId(@), ServicioRow(datos.cliente_id, datos.precio_estimado))]

\* SELECT 1 FROM propuestas WHERE servicio_id = %s AND trabajador_id = %s
PropuestasDe(store, servicio_id, trabajador_id) ==
    {p \in DOMAIN store.propuestas :
        /\ store.propuestas[p].servicio_id = servicio_id
        /\ store.propuestas[p].trabajador_id = trabajador_id}

\* INSERT INTO propuestas (servicio_id, trabajador_id, precio_oferta, mensaje)
InsertPropuesta(store, datos) ==
    [store EXCEPT !.propuestas =
        Insert(@, NextId(@),
               PropuestaRow(datos.servicio_id, datos.trabajador_id, datos.precio_oferta))]

\* (SELECT precio_oferta FROM propuestas WHERE id = %s): NULL when no row
PrecioOferta(store, propuesta_id) ==
    IF propuesta_id \in DOMAIN store.propuestas
    THEN store.propuestas[propuesta_id].precio_oferta
    ELSE NULL

\* UPDATE servicios SET trabajador_id = %s, estado = 'EN_PROCESO',
\*        precio_estimado = (SELECT ...) WHERE id = %s
UpdateServicioContratar(store, datos) ==
    IF datos.servicio_id \in DOMAIN store.servicios
    THEN [store EXCEPT !.servicios[datos.servicio_id] =
            [@ EXCEPT !.trabajador_id = datos.trabajador_id,
                      !.estado = "EN_PROCESO",
                      !.precio_estimado = PrecioOferta(store, datos.propuesta_id)]]
    ELSE store

\* the same UPDATE keyed by the proposal's request instead of its id: every
\* proposal of that request becomes accepted
UpdatePropuestaAceptadaPorServicio(store, propuesta_id) ==
    IF propuesta_id \in DOMAIN store.propuestas
    THEN [store EXCEPT !.propuestas =
            [p \in DOMAIN @ |->
                IF @[p].servicio_id = @[propuesta_id].servicio_id
                THEN [@[p] EXCEPT !.aceptada = TRUE]
                ELSE @[p]]]
    ELSE store

\* UPDATE propuestas SET aceptada = TRUE WHERE id = %s
UpdatePropuestaAceptada(store, propuesta_id) ==
    IF propuesta_id \in DOMAIN store.propuestas
    THEN [store EXCEPT !.propuestas[propuesta_id].aceptada = TRUE]
    ELSE store

\* UPDATE servicios SET estado = 'TERMINADO', calificacion = %s, resena = %s
\*        WHERE id = %s RETURNING trabajador_id
UpdateServicioFinalizar(store, datos) ==
    [store EXCEPT !.servicios[datos.servicio_id] =
        [@ EXCEPT !.estado = "TERMINADO", !.calificacion = datos.calificacion]]

\* the same rows without `AND calificacion IS NOT NULL`
CalificadosSinFiltro(store, tid) ==
    IF tid = NULL THEN {}
    ELSE {s \in DOMAIN store.servicios : store.servicios[s].trabajador_id = tid}

\* rows of: SELECT ... FROM servicios WHERE trabajador_id = %s AND
\* calificacion IS NOT NULL  (no row when tid is NULL: NULL = NULL is not true)
Calificados(store, tid) ==
    IF tid = NULL THEN {}
    ELSE {s \in DOMAIN store.servicios :
            /\ store.servicios[s].trabajador_id = tid
            /\ store.servicios[s].calificacion # NULL}

\* SELECT AVG(calificacion) as pro, COUNT(*) as tot
Stats(store, tid) ==
    LET rows == Calificados(store, tid)
        cal == [s \in rows |-> store.servicios[s].calificacion]
    IN [pro |-> Promedio(SumOver(cal, rows), Cardinality(rows)),
        tot |-> Cardinality(rows)]

\* UPDATE detalles_trabajador SET calificacion_promedio = %s,
\*        total_evaluaciones = %s WHERE usuario_id = %s
UpdateEstadisticas(store, tid, stats) ==
    IF tid \in DOMAIN store.detalles_trabajador
    THEN [store EXCEPT !.detalles_trabajador[tid] =
            [@ EXCEPT !.calificacion_promedio = stats.pro,
                      !.total_evaluaciones = stats.tot]]
    ELSE store

-----------------------------------------------------------------------------
(* Marketplace workflow: handlers, each run without interleaving *)

\* POST /servicios
crear_servicio(datos) ==
    /\ NextId(db.servicios) <= MaxServicios
    /\ IF Poisoned \/ datos.cliente_id = BadId
       THEN RollsBack("crear_servicio", datos, ExceptException(InternalError))
       ELSE Commits("crear_servicio", datos, InsertServicio(db, datos), OK)
    /\ UNCHANGED <<now, pc, req>>

\* POST /propuestas
crear_propuesta(datos) ==
    /\ NextId(db.propuestas) <= MaxPropuestas
    /\ IF Poisoned \/ datos.servicio_id = BadId \/ datos.trabajador_id = BadId
       THEN RollsBack("crear_propuesta", datos, InternalError)
       ELSE IF PropuestasDe(db, datos.servicio_id, datos.trabajador_id) # {}
       THEN LeavesOpen("crear_propuesta", datos, ExceptHTTPException(DuplicateProposal))
       ELSE Commits("crear_propuesta", datos, InsertPropuesta(db, datos), OK)
    /\ UNCHANGED <<now, pc, req>>

\* GET /servicios/{servicio_id}/propuestas
ver_propuestas(servicio_id) ==
    /\ IF Poisoned \/ servicio_id = BadId
       THEN LeavesAborted("ver_propuestas", [servicio_id |-> servicio_id], InternalError)
       ELSE LeavesOpen("ver_propuestas", [servicio_id |-> servicio_id], OK)
    /\ UNCHANGED <<now, pc, req>>

\* POST /servicios/contratar
contratar_trabajador(datos) ==
    /\ IF \/ Poisoned
          \/ BadId \in {datos.servicio_id, datos.trabajador_id, datos.propuesta_id}
       THEN RollsBack("contratar_trabajador", datos, InternalError)
       ELSE Commits("contratar_trabajador", datos,
                    UpdatePropuestaAceptada(UpdateServicioContratar(db, datos),
                                            datos.propuesta_id),
                    OK)
    /\ UNCHANGED <<now, pc, req>>

\* POST /servicios/finalizar
finalizar_servicio(datos) ==
    /\ IF Poisoned \/ datos.servicio_id = BadId
       THEN RollsBack("finalizar_servicio", datos, InternalError)
       ELSE IF datos.servicio_id \notin DOMAIN db.servicios
       THEN RollsBack("finalizar_servicio", datos, ExceptException(NotFound))
       ELSE LET s1 == UpdateServicioFinalizar(db, datos)
                tid == s1.servicios[datos.servicio_id].trabajador_id
                stats == Stats(s1, tid)
            IN Commits("finalizar_servicio", datos,
                       UpdateEstadisticas(s1, tid, stats), OK)
    /\ UNCHANGED <<now, pc, req>>

\* requests the clients send
CrearServicios ==
    [cliente_id : {BadId} \cup DOMAIN db.detalles_cliente, precio_estimado : {NULL, 15}]

CrearPropuestas ==
    [servicio_id : {BadId} \cup DOMAIN db.servicios,
     trabajador_id : {BadId} \cup DOMAIN db.detalles_trabajador,
     precio_oferta : Precios]

AceptarPropuestas ==
    [servicio_id : {BadId} \cup ServicioIds,
     trabajador_id : {BadId} \cup DOMAIN db.detalles_trabajador,
     propuesta_id : {BadId} \cup PropuestaIds]

CalificarServicios ==
    [servicio_id : {BadId} \cup ServicioIds, calificacion : Calificaciones]

-----------------------------------------------------------------------------
(* Read-only endpoints: one SELECT, no commit, and an except clause that    *)
(* does not roll back                                                       *)

\* a handler whose query takes no request parameter
ReadAll(op) ==
    /\ IF Poisoned
       THEN LeavesAborted(op, <<>>, InternalError)
       ELSE LeavesOpen(op, <<>>, OK)
    /\ UNCHANGED <<now, pc, req>>

\* a handler whose query is keyed by an id of the path
ReadById(op, id) ==
    /\ IF Poisoned \/ id = BadId
       THEN LeavesAborted(op, <<>>, InternalError)
       ELSE LeavesOpen(op, <<>>, OK)
    /\ UNCHANGED <<now, pc, req>>

\* a handler that raises HTTPException(404) inside its own try block when the
\* joined row is missing
ReadProfile(op, id, tabla) ==
    /\ IF Poisoned \/ id = BadId
       THEN LeavesAborted(op, <<>>, InternalError)
       ELSE IF id \notin DOMAIN tabla
       THEN LeavesOpen(op, <<>>, ExceptException(NotFound))
       ELSE LeavesOpen(op, <<>>, OK)
    /\ UNCHANGED <<now, pc, req>>

\* GET /categorias
obtener_categorias == ReadAll("obtener_categorias")

\* GET /servicios/{usuario_id}
listar_servicios_cliente(usuario_id) == ReadById("listar_servicios_cliente", usuario_id)

\* GET /feed-servicios
feed_servicios == ReadAll("feed_servicios")

\* GET /trabajador/mis-trabajos/{trabajador_id}
mis_trabajos_trabajador(trabajador_id) == ReadById("mis_trabajos_trabajador", trabajador_id)

\* GET /admin/usuarios
admin_listar_usuarios == ReadAll("admin_listar_usuarios")

\* GET /mi-perfil/{usuario_id}
obtener_perfil_trabajador(usuario_id) ==
    ReadProfile("obtener_perfil_trabajador", usuario_id, db.detalles_trabajador)

\* GET /mi-perfil-cliente/{usuario_id}
get_perfil_cliente(usuario_id) ==
    ReadProfile("get_perfil_cliente", usuario_id, db.detalles_cliente)

-----------------------------------------------------------------------------
(* Identity and auth *)

\* SELECT ... FROM usuarios WHERE correo_electronico = %s
UsuariosConCorreo(store, correo) ==
    {u \in DOMAIN store.usuarios : store.usuarios[u].correo_electronico = correo}

\* POST /login
login(datos) ==
    /\ IF Poisoned
       THEN LeavesAborted("login", datos, InternalError)
       ELSE LET found == UsuariosConCorreo(db, datos.correo) IN
            IF \/ found = {}
               \/ \E id \in found :
                    \/ ~db.usuarios[id].activo
                    \/ ~verificar_password(datos.password, db.usuarios[id].password_hash)
            THEN LeavesOpen("login", datos, ExceptException(InvalidCredentials))
            ELSE IF \E id \in found :
                        /\ db.usuarios[id].bloqueado_hasta # NULL
                        /\ db.usuarios[id].bloqueado_hasta > now
            THEN LeavesOpen("login", datos, ExceptException(AccountLocked))
            ELSE LeavesOpen("login", datos, OK)
    /\ UNCHANGED <<now, pc, req>>

\* POST /verificar-cuenta
verificar_cuenta(datos) ==
    /\ IF Poisoned
       THEN RollsBack("verificar_cuenta", datos, InternalError)
       ELSE LET found == UsuariosConCorreo(db, datos.correo) IN
            IF found = {}
            THEN RollsBack("verificar_cuenta", datos, ExceptException(NotFound))
            ELSE LET id == CHOOSE u \in found : TRUE IN
                 IF db.usuarios[id].activo
                 THEN LeavesOpen("verificar_cuenta", datos, OK)
                 ELSE IF db.usuarios[id].codigo_verificacion = datos.codigo
                 THEN Commits("verificar_cuenta", datos,
                              [db EXCEPT !.usuarios[id].activo = TRUE], OK)
                 ELSE RollsBack("verificar_cuenta", datos, ExceptException(InvalidCode))
    /\ UNCHANGED <<now, pc, req>>

\* INSERT INTO usuarios (...) VALUES (..., TRUE, codigo) RETURNING id
InsertUsuario(store, datos, salt, codigo) ==
    [store EXCEPT !.usuarios =
        Insert(@, NextId(@),
               UsuarioRow(datos.correo_electronico,
                          encriptar_password(datos.password, salt),
                          datos.perfil, FALSE, codigo))]

\* the two register handlers: first the usuarios row, then the detail row of
\* the role, one commit; a unique violation on the email is answered 400
Registrar(op, datos, salt, codigo, tabla, detalle) ==
    /\ NextId(db.usuarios) <= MaxUsuarios
    /\ IF Poisoned
       THEN RollsBack(op, datos, InternalError)
       ELSE IF UsuariosConCorreo(db, datos.correo_electronico) # {}
       THEN RollsBack(op, datos, DuplicateEmail)
       ELSE Commits(op, datos,
                    [InsertUsuario(db, datos, salt, codigo) EXCEPT ![tabla] =
                        Insert(@, NextId(db.usuarios), detalle)],
                    OK)
    /\ UNCHANGED <<now, pc, req>>

\* POST /registro-cliente
registrar_cliente(datos, salt, codigo) ==
    Registrar("registrar_cliente", datos, salt, codigo,
              "detalles_cliente", DetalleClienteRow(datos.domicilio))

\* POST /registro-trabajador
registrar_trabajador(datos, salt, codigo) ==
    Registrar("registrar_trabajador", datos, salt, codigo,
              "detalles_trabajador", DetalleTrabajadorRow(datos.ficha, datos.oficios_ids))

-----------------------------------------------------------------------------
(* Payment bridge.  The handler never touches the connection.               *)

Created == 201                  \* the provider's status of a created preference
PaymentSessionError == 400      \* HTTPException(400, "MP Error: ...")

\* sdk: None when the provider is not configured
SDKs == {NULL, 1}

\* what sdk.preference().create() does: it raises, or it returns a status and
\* a response body (NULL: the key "response" holds None)
RespuestasMP ==
    [raises : {FALSE}, status : {Created, 400, NULL}, response : {NULL, 7}]
        \cup {[raises |-> TRUE, status |-> NULL, response |-> NULL]}

\* a handler that answers success whenever the provider call returns
PagoStatusSinEstado(sdk, respuesta) ==
    IF sdk = NULL THEN InternalError
    ELSE IF respuesta.raises THEN ExceptException(InternalError)
    ELSE OK

\* the status the handler answers with
PagoStatus(sdk, respuesta) ==
    IF sdk = NULL THEN InternalError
    ELSE IF respuesta.raises THEN ExceptException(InternalError)
    ELSE IF respuesta.status = Created
         THEN IF respuesta.response = NULL
              THEN ExceptException(InternalError)      \* None.get(...)
              ELSE OK
         ELSE ExceptHTTPException(PaymentSessionError)

\* POST /pagos/crear-preferencia
crear_preferencia_pago(datos, sdk, respuesta) ==
    /\ Replies("crear_preferencia_pago", PagoStatus(sdk, respuesta))
    /\ UNCHANGED <<db, committed, txStatus, now, pc, req>>

SolicitudesPago ==
    [servicio_id : {BadId, 1}, propuesta_id : {1}, trabajador_id : {3}]

-----------------------------------------------------------------------------
(* Admin console *)

\* DELETE FROM usuarios WHERE id = %s, with the rows that reference the user
\* removed by the foreign keys' ON DELETE CASCADE
DeleteUsuario(store, id) ==
    LET servs == {s \in DOMAIN store.servicios :
                    id \in {store.servicios[s].cliente_id, store.servicios[s].trabajador_id}}
        props == {p \in DOMAIN store.propuestas :
                    \/ store.propuestas[p].trabajador_id = id
                    \/ store.propuestas[p].servicio_id \in servs}
    IN [usuarios |-> Delete(store.usuarios, {id}),
        detalles_cliente |-> Delete(store.detalles_cliente, {id}),
        detalles_trabajador |-> Delete(store.detalles_trabajador, {id}),
        servicios |-> Delete(store.servicios, servs),
        propuestas |-> Delete(store.propuestas, props)]

\* dias = datos.dias_bloqueo if datos.dias_bloqueo else 36500
DiasBloqueo(dias_bloqueo) ==
    IF dias_bloqueo = NULL \/ dias_bloqueo = 0 THEN 36500 ELSE dias_bloqueo

\* the statement the action selects, applied to the store
AccionAdmin(store, datos) ==
    LET id == datos.usuario_id IN
    CASE datos.accion = "validar" ->
            IF id \in DOMAIN store.detalles_trabajador
            THEN [store EXCEPT !.detalles_trabajador[id].validado_por_admin = TRUE]
            ELSE store
      [] datos.accion = "bloquear" ->
            IF id \in DOMAIN store.usuarios
            THEN [store EXCEPT !.usuarios[id].bloqueado_hasta =
                                    now + DiasBloqueo(datos.dias_bloqueo)]
            ELSE store
      [] datos.accion = "desbloquear" ->
            IF id \in DOMAIN store.usuarios
            THEN [store EXCEPT !.usuarios[id].bloqueado_hasta = NULL]
            ELSE store
      [] datos.accion = "borrar" ->
            IF id \in DOMAIN store.usuarios THEN DeleteUsuario(store, id) ELSE store
      [] OTHER -> store

AccionesConocidas == {"validar", "bloquear", "desbloquear", "borrar"}

\* POST /admin/accion
admin_accion_usuario(datos) ==
    /\ IF datos.accion \in AccionesConocidas
       THEN IF Poisoned \/ datos.usuario_id = BadId
            THEN RollsBack("admin_accion_usuario", datos, InternalError)
            ELSE Commits("admin_accion_usuario", datos, AccionAdmin(db, datos), OK)
       ELSE \* no statement at all: the commit ends whatever transaction is open,
            \* and ends a failed one as a rollback
            Commits("admin_accion_usuario", datos,
                    IF Poisoned THEN committed ELSE db, OK)
    /\ UNCHANGED <<now, pc, req>>

-----------------------------------------------------------------------------
(* Profile management *)

\* UPDATE usuarios SET nombre=%s, apellidos=%s, telefono=%s, foto_perfil_url=%s
\*        WHERE id=%s
UpdateUsuarioPerfil(store, usuario_id, datos) ==
    IF usuario_id \in DOMAIN store.usuarios
    THEN [store EXCEPT !.usuarios[usuario_id].perfil = datos.perfil]
    ELSE store

\* UPDATE detalles_trabajador SET descripcion_bio=%s, anios_experiencia=%s, ...
\*        WHERE usuario_id=%s
UpdateDetalleTrabajador(store, usuario_id, datos) ==
    IF usuario_id \in DOMAIN store.detalles_trabajador
    THEN [store EXCEPT !.detalles_trabajador[usuario_id].ficha = datos.ficha]
    ELSE store

\* anios_experiencia is an unbounded Python int: "overflow" stands for a ficha
\* whose value the integer column rejects (numeric value out of range)
FichaRejected(datos) == datos.ficha = "overflow"

\* PUT /mi-perfil/{usuario_id}
actualizar_perfil_trabajador(usuario_id, datos) ==
    /\ IF Poisoned \/ usuario_id = BadId \/ FichaRejected(datos)
       THEN RollsBack("actualizar_perfil_trabajador", datos, InternalError)
       ELSE Commits("actualizar_perfil_trabajador", datos,
                    UpdateDetalleTrabajador(UpdateUsuarioPerfil(db, usuario_id, datos),
                                            usuario_id, datos),
                    OK)
    /\ UNCHANGED <<now, pc, req>>

\* fields of the request model PerfilClienteUpdate
PerfilClienteUpdate ==
    {"nombre", "apellidos", "telefono", "calle", "colonia", "codigo_postal", "ciudad",
     "foto_perfil_url", "password_nuevo"}

\* attributes of `d` the handler reads to build its two statements
UpdatePerfilClienteReads ==
    {"password_nuevo", "nombre", "apellidos", "telefono", "correo_electronico",
     "foto_perfil_url", "calle", "colonia", "codigo_postal", "ciudad",
     "numero_exterior", "numero_interior", "referencias", "latitud", "longitud"}

\* reading an attribute the request model does not declare raises AttributeError
AttributeError(modelo, leidos) == ~(leidos \subseteq modelo)

\* the two UPDATEs of the client profile
UpdatePerfilCliente(store, usuario_id, d, salt) ==
    LET s1 == IF usuario_id \in DOMAIN store.usuarios
              THEN [store EXCEPT !.usuarios[usuario_id] =
                        [@ EXCEPT !.perfil = d.perfil,
                                  !.password_hash =
                                      IF d.password_nuevo \notin {SinPassword, <<"", "">>}
                                      THEN encriptar_password(d.password_nuevo, salt)
                                      ELSE @]]
              ELSE store
    IN IF usuario_id \in DOMAIN s1.detalles_cliente
       THEN [s1 EXCEPT !.detalles_cliente[usuario_id].domicilio = d.domicilio]
       ELSE s1

\* PUT /mi-perfil-cliente/{usuario_id}
update_perfil_cliente(usuario_id, d, salt) ==
    /\ IF \/ AttributeError(PerfilClienteUpdate, UpdatePerfilClienteReads)
          \/ Poisoned
          \/ usuario_id = BadId
       THEN RollsBack("update_perfil_cliente", d, ExceptException(InternalError))
       ELSE Commits("update_perfil_cliente", d,
                    UpdatePerfilCliente(db, usuario_id, d, salt), OK)
    /\ UNCHANGED <<now, pc, req>>

-----------------------------------------------------------------------------
(* The clock *)

Tick ==
    /\ \E t \in (now + 1)..MaxNow : now' = t
    /\ UNCHANGED <<db, committed, txStatus, last, served, pc, req>>

-----------------------------------------------------------------------------
(* Requests the clients send *)

LoginRequests == [correo : {"c@x", "n@x"}, password : {<<"p", "">>, <<"p", "x">>, <<"q", "">>}]

DatosVerificacion == [correo : {"c@x", "t2@x", "n@x"}, codigo : Codigos]

RegistroClientes ==
    [correo_electronico : {"c@x", "n@x"}, password : {<<"p", "">>}, perfil : {"a"},
     domicilio : {"d"}]

RegistroTrabajadores ==
    [correo_electronico : {"t1@x", "n@x"}, password : {<<"q", "x">>}, perfil : {"b"},
     ficha : {"f"}, oficios_ids : {{}, {1}}]

AccionesAdmin ==
    [usuario_id : {BadId, 2, 3, MaxUsuarios},
     accion : AccionesConocidas \cup {"otra"},
     dias_bloqueo : {0, 5}]

PerfilTrabajadorUpdates == [perfil : Perfiles, ficha : Fichas \cup {"overflow"}]

PerfilClienteUpdates ==
    [perfil : Perfiles, domicilio : Domicilios, password_nuevo : {SinPassword, <<"", "">>, <<"q", "">>}]

NextMarket ==
    \/ \E datos \in CrearServicios : crear_servicio(datos)
    \/ \E usuario_id \in {BadId} \cup UsuarioIds : listar_servicios_cliente(usuario_id)
    \/ feed_servicios
    \/ \E datos \in CrearPropuestas : crear_propuesta(datos)
    \/ \E servicio_id \in {BadId} \cup ServicioIds : ver_propuestas(servicio_id)
    \/ \E datos \in AceptarPropuestas : contratar_trabajador(datos)
    \/ \E trabajador_id \in {BadId} \cup UsuarioIds : mis_trabajos_trabajador(trabajador_id)
    \/ \E datos \in CalificarServicios : finalizar_servicio(datos)

NextAuth ==
    \/ obtener_categorias
    \/ \E datos \in RegistroClientes, salt \in Sales, codigo \in Codigos :
            registrar_cliente(datos, salt, codigo)
    \/ \E datos \in RegistroTrabajadores, salt \in Sales, codigo \in Codigos :
            registrar_trabajador(datos, salt, codigo)
    \/ \E datos \in DatosVerificacion : verificar_cuenta(datos)
    \/ \E datos \in LoginRequests : login(datos)
    \/ admin_listar_usuarios
    \/ \E datos \in AccionesAdmin : admin_accion_usuario(datos)
    \/ Tick

NextPerfil ==
    \/ \E usuario_id \in {BadId} \cup UsuarioIds : obtener_perfil_trabajador(usuario_id)
    \/ \E usuario_id \in {BadId} \cup UsuarioIds, datos \in PerfilTrabajadorUpdates :
            actualizar_perfil_trabajador(usuario_id, datos)
    \/ \E usuario_id \in {BadId} \cup UsuarioIds : get_perfil_cliente(usuario_id)
    \/ \E usuario_id \in {BadId} \cup UsuarioIds, d \in PerfilClienteUpdates, salt \in Sales :
            update_perfil_cliente(usuario_id, d, salt)

Next == NextMarket \/ NextAuth \/ NextPerfil

Spec == Init /\ [][Next]_vars

SpecMarket == Init /\ [][NextMarket]_vars

SpecAuth == Init /\ [][NextAuth]_vars

SpecPerfil == Init /\ [][NextPerfil]_vars

\* the marketplace together with the handlers that never roll back
NextConexion ==
    \/ NextMarket
    \/ \E datos \in LoginRequests : login(datos)
    \/ \E usuario_id \in {BadId} \cup UsuarioIds : obtener_perfil_trabajador(usuario_id)

SpecConexion == Init /\ [][NextConexion]_vars

\* Accounts.  Every INSERT of this code stores activo = TRUE, and no statement
\* of it ever stores FALSE; the verification endpoint is written for rows that
\* are not active, so the store may start with worker 4 active or not.
InitCuenta ==
    /\ \E activo \in BOOLEAN :
            /\ db = [StoreInicial EXCEPT !.usuarios[4].activo = activo]
            /\ committed = db
    /\ txStatus = "IDLE"
    /\ now = 0
    /\ last = [op |-> "lifespan", status |-> OK]
    /\ served = 0
    /\ pc = [t \in Threads |-> "idle"]
    /\ req = [t \in Threads |-> <<>>]

\* the account endpoints together with a read keyed by a path id
NextCuenta ==
    \/ \E datos \in RegistroClientes, salt \in Sales, codigo \in Codigos :
            registrar_cliente(datos, salt, codigo)
    \/ \E datos \in RegistroTrabajadores, salt \in Sales, codigo \in Codigos :
            registrar_trabajador(datos, salt, codigo)
    \/ \E datos \in DatosVerificacion : verificar_cuenta(datos)
    \/ \E datos \in LoginRequests : login(datos)
    \/ \E usuario_id \in {BadId} \cup UsuarioIds : get_perfil_cliente(usuario_id)

SpecCuenta == InitCuenta /\ [][NextCuenta]_vars

\* the hire flow with the payment that precedes the hire
NextPago ==
    \/ \E datos \in SolicitudesPago, sdk \in SDKs, respuesta \in RespuestasMP :
            crear_preferencia_pago(datos, sdk, respuesta)
    \/ \E datos \in CrearPropuestas : crear_propuesta(datos)
    \/ \E servicio_id \in {BadId} \cup ServicioIds : ver_propuestas(servicio_id)
    \/ \E datos \in AceptarPropuestas : contratar_trabajador(datos)

SpecPago == Init /\ [][NextPago]_vars

-----------------------------------------------------------------------------
(* Interleaved requests.  FastAPI runs each `def` handler in a worker       *)
(* thread, and every thread uses the one connection of db_connections: the  *)
(* statements of two requests interleave inside one transaction.  One step  *)
(* per statement, commit, rollback.                                         *)

Goto(t, label) == pc' = [pc EXCEPT ![t] = label]

\* a request arrives and a thread takes it
Begin(t, label, datos) ==
    /\ pc[t] = "idle"
    /\ served < MaxRequests
    /\ served' = served + 1
    /\ Goto(t, label)
    /\ req' = [req EXCEPT ![t] = datos]
    /\ UNCHANGED <<db, committed, txStatus, now, last>>

\* the thread answers and is free again
End(t, op, status) ==
    /\ Goto(t, "idle")
    /\ req' = [req EXCEPT ![t] = <<>>]
    /\ last' = [op |-> op, status |-> status]
    /\ UNCHANGED <<now, served>>

\* cursor.execute raised: the transaction is aborted and control is in the
\* handler's `except Exception` clause
Raises(t, label) ==
    /\ txStatus' = "INERROR"
    /\ Goto(t, label)
    /\ UNCHANGED <<db, committed, now, last, served, req>>

\* conn.commit() by thread t (on a failed transaction the store ends it as a
\* rollback)
ConnCommit ==
    /\ committed' = IF Poisoned THEN committed ELSE db
    /\ db' = IF Poisoned THEN committed ELSE db
    /\ txStatus' = "IDLE"

\* conn.rollback() by thread t
ConnRollback ==
    /\ db' = committed
    /\ UNCHANGED committed
    /\ txStatus' = "IDLE"

\* POST /propuestas, statement by statement
cp_begin(t, datos) == Begin(t, "cp_select", datos)

cp_select(t) ==
    /\ pc[t] = "cp_select"
    /\ IF Poisoned \/ req[t].servicio_id = BadId \/ req[t].trabajador_id = BadId
       THEN Raises(t, "cp_except")
       ELSE IF PropuestasDe(db, req[t].servicio_id, req[t].trabajador_id) # {}
       THEN /\ txStatus' = "INTRANS"
            /\ UNCHANGED <<db, committed>>
            /\ End(t, "crear_propuesta", ExceptHTTPException(DuplicateProposal))
       ELSE /\ txStatus' = "INTRANS"
            /\ Goto(t, "cp_insert")
            /\ UNCHANGED <<db, committed, now, last, served, req>>

cp_insert(t) ==
    /\ pc[t] = "cp_insert"
    /\ NextId(db.propuestas) <= MaxPropuestas
    /\ IF Poisoned
       THEN Raises(t, "cp_except")
       ELSE /\ db' = InsertPropuesta(db, req[t])
            /\ txStatus' = "INTRANS"
            /\ Goto(t, "cp_commit")
            /\ UNCHANGED <<committed, now, last, served, req>>

cp_commit(t) ==
    /\ pc[t] = "cp_commit"
    /\ ConnCommit
    /\ End(t, "crear_propuesta", OK)

cp_except(t) ==
    /\ pc[t] = "cp_except"
    /\ ConnRollback
    /\ End(t, "crear_propuesta", InternalError)

\* PUT /mi-perfil/{usuario_id}, statement by statement
ap_begin(t, usuario_id, datos) ==
    Begin(t, "ap_usuarios", [usuario_id |-> usuario_id, datos |-> datos])

ap_usuarios(t) ==
    /\ pc[t] = "ap_usuarios"
    /\ IF Poisoned \/ req[t].usuario_id = BadId
       THEN Raises(t, "ap_except")
       ELSE /\ db' = UpdateUsuarioPerfil(db, req[t].usuario_id, req[t].datos)
            /\ txStatus' = "INTRANS"
            /\ Goto(t, "ap_detalles")
            /\ UNCHANGED <<committed, now, last, served, req>>

ap_detalles(t) ==
    /\ pc[t] = "ap_detalles"
    /\ IF Poisoned \/ FichaRejected(req[t].datos)
       THEN Raises(t, "ap_except")
       ELSE /\ db' = UpdateDetalleTrabajador(db, req[t].usuario_id, req[t].datos)
            /\ txStatus' = "INTRANS"
            /\ Goto(t, "ap_commit")
            /\ UNCHANGED <<committed, now, last, served, req>>

ap_commit(t) ==
    /\ pc[t] = "ap_commit"
    /\ ConnCommit
    /\ End(t, "actualizar_perfil_trabajador", OK)

ap_except(t) ==
    /\ pc[t] = "ap_except"
    /\ ConnRollback
    /\ End(t, "actualizar_perfil_trabajador", InternalError)

\* what the concurrent clients send: proposals on the open jobs, and profile
\* forms whose user part and worker part go together ("a" with "f", "b" with
\* "g", and "b" with a worker part the store rejects)
PropuestasConcurrentes ==
    [servicio_id : DOMAIN db.servicios,
     trabajador_id : {BadId} \cup DOMAIN db.detalles_trabajador,
     precio_oferta : Precios]

PerfilesConcurrentes ==
    {[perfil |-> "a", ficha |-> "f"], [perfil |-> "b", ficha |-> "g"],
     [perfil |-> "b", ficha |-> "overflow"]}

NextConc ==
    \/ \E t \in Threads, datos \in PropuestasConcurrentes : cp_begin(t, datos)
    \/ \E t \in Threads : cp_select(t)
    \/ \E t \in Threads : cp_insert(t)
    \/ \E t \in Threads : cp_commit(t)
    \/ \E t \in Threads : cp_except(t)
    \/ \E t \in Threads, usuario_id \in {BadId, 3}, datos \in PerfilesConcurrentes :
            ap_begin(t, usuario_id, datos)
    \/ \E t \in Threads : ap_usuarios(t)
    \/ \E t \in Threads : ap_detalles(t)
    \/ \E t \in Threads : ap_commit(t)
    \/ \E t \in Threads : ap_except(t)

SpecConc == Init /\ [][NextConc]_vars

-----------------------------------------------------------------------------
(* Claims *)

Servicios(store) == DOMAIN store.servicios
Propuestas(store) == DOMAIN store.propuestas

\* C1: a service request's state only moves SOLICITADO -> EN_PROCESO and
\* EN_PROCESO -> TERMINADO; in particular a hire leaves the state of a request
\* that is not SOLICITADO alone, a completion leaves the state of a request
\* that is not EN_PROCESO alone, and TERMINADO is never left.
C1_EstadoSoloAvanza ==
    [][\A s \in Servicios(db) \cap Servicios(db') :
          db'.servicios[s].estado # db.servicios[s].estado =>
              <<db.servicios[s].estado, db'.servicios[s].estado>> \in
                  {<<"SOLICITADO", "EN_PROCESO">>, <<"EN_PROCESO", "TERMINADO">>}]_vars

\* C2: in every reachable state, committed or not, the proposals table holds
\* at most one proposal per (service request, worker) pair.
C2_UnaPropuestaPorPar ==
    \A store \in {db, committed} :
        \A s \in ServicioIds, w \in UsuarioIds :
            Cardinality(PropuestasDe(store, s, w)) <= 1

\* C3: no committed state shows the User part of a worker profile form
\* without the WorkerDetail part of the same form (the forms pair "a" with "f"
\* and "b" with "g"; the store starts with "a" and "f").
C3_PerfilAtomico ==
    \A u \in DOMAIN committed.detalles_trabajador :
        <<committed.usuarios[u].perfil, committed.detalles_trabajador[u].ficha>> \in
            {<<"a", "f">>, <<"b", "g">>}

\* C4: a client profile update with a well-formed body for an existing client
\* succeeds, and afterward the User row carries the supplied profile fields,
\* the ClientDetail row the supplied address, and the password hash changed
\* exactly when a new password was supplied.
C4_UpdatePerfilCliente ==
    [][\A usuario_id \in DOMAIN db.detalles_cliente, d \in PerfilClienteUpdates,
          salt \in Sales :
          update_perfil_cliente(usuario_id, d, salt) =>
              /\ last'.status = OK
              /\ db'.usuarios[usuario_id].perfil = d.perfil
              /\ db'.detalles_cliente[usuario_id].domicilio = d.domicilio
              /\ (db'.usuarios[usuario_id].password_hash #
                      db.usuarios[usuario_id].password_hash)
                    <=> (d.password_nuevo \notin {SinPassword, <<"", "">>})]_vars

\* the requests of worker w that carry a rating, stated on the table itself
ConCalificacion(store, w) ==
    {s \in Servicios(store) :
        store.servicios[s].trabajador_id = w /\ store.servicios[s].calificacion # NULL}

SumaCalificaciones(store, w) ==
    SumOver([s \in Servicios(store) |-> store.servicios[s].calificacion],
            ConCalificacion(store, w))

\* C5: after a successful complete_and_rate on a request hired by worker W,
\* W's stored evaluation count is the number of W's rated requests and W's
\* stored average is the sum of those ratings divided by that count.
C5_PromedioRecalculado ==
    [][\A datos \in CalificarServicios :
          (finalizar_servicio(datos) /\ last'.status = OK) =>
              LET w == db'.servicios[datos.servicio_id].trabajador_id IN
              w \in DOMAIN db'.detalles_trabajador =>
                  LET dt == db'.detalles_trabajador[w]
                      n == Cardinality(ConCalificacion(db', w))
                  IN /\ n >= 1
                     /\ dt.total_evaluaciones = n
                     /\ dt.calificacion_promedio[1] * n =
                            SumaCalificaciones(db', w) * dt.calificacion_promedio[2]]_vars

\* worker 3, rated 5 and 3 before, has just been rated 4 on a third request:
\* average 4.0, count 3
C5_Witness ==
    /\ last = [op |-> "finalizar_servicio", status |-> OK]
    /\ 3 \in DOMAIN db.detalles_trabajador
    /\ Cardinality(ConCalificacion(db, 3)) = 3
    /\ \E s \in ConCalificacion(db, 3) :
            /\ db.servicios[s].calificacion = 4
            /\ {db.servicios[x].calificacion : x \in ConCalificacion(db, 3) \ {s}} = {3, 5}
    /\ db.detalles_trabajador[3].calificacion_promedio = <<4, 1>>
    /\ db.detalles_trabajador[3].total_evaluaciones = 3

\* C6: a hire that succeeds on an existing request with an existing proposal
\* sets the request's worker, copies the proposal's offer into its price, moves
\* it to EN_PROCESO, marks the proposal accepted, and changes no other request,
\* no other proposal and no other table; a hire that fails changes nothing.
C6_ContratarMarco ==
    [][\A datos \in AceptarPropuestas :
          contratar_trabajador(datos) =>
              IF last'.status # OK THEN db' = db
              ELSE (datos.servicio_id \in Servicios(db) /\ datos.propuesta_id \in Propuestas(db)) =>
                  /\ Servicios(db') = Servicios(db)
                  /\ Propuestas(db') = Propuestas(db)
                  /\ db'.servicios[datos.servicio_id] =
                        [db.servicios[datos.servicio_id] EXCEPT
                            !.trabajador_id = datos.trabajador_id,
                            !.precio_estimado = db.propuestas[datos.propuesta_id].precio_oferta,
                            !.estado = "EN_PROCESO"]
                  /\ db'.propuestas[datos.propuesta_id] =
                        [db.propuestas[datos.propuesta_id] EXCEPT !.aceptada = TRUE]
                  /\ \A s \in Servicios(db) \ {datos.servicio_id} :
                        db'.servicios[s] = db.servicios[s]
                  /\ \A p \in Propuestas(db) \ {datos.propuesta_id} :
                        db'.propuestas[p] = db.propuestas[p]
                  /\ db'.usuarios = db.usuarios
                  /\ db'.detalles_cliente = db.detalles_cliente
                  /\ db'.detalles_trabajador = db.detalles_trabajador]_vars

\* a hire has just bound a worker to a request through that worker's proposal
\* while a competing proposal on the same request stays as it was, not accepted
C6_Witness ==
    /\ last = [op |-> "contratar_trabajador", status |-> OK]
    /\ \E s \in Servicios(db), p, q \in Propuestas(db) :
            /\ p # q
            /\ db.servicios[s].estado = "EN_PROCESO"
            /\ db.propuestas[p].servicio_id = s
            /\ db.propuestas[q].servicio_id = s
            /\ db.propuestas[p].aceptada
            /\ ~db.propuestas[q].aceptada
            /\ db.servicios[s].trabajador_id = db.propuestas[p].trabajador_id
            /\ db.servicios[s].precio_estimado = db.propuestas[p].precio_oferta
            /\ db.propuestas[q].precio_oferta # db.propuestas[p].precio_oferta

\* C7: submit_proposal for a (request, worker) pair that already has a
\* proposal fails with DuplicateProposal and inserts nothing: exactly one row
\* of the pair exists afterward.
C7_PropuestaDuplicada ==
    [][\A datos \in CrearPropuestas :
          (/\ crear_propuesta(datos)
           /\ PropuestasDe(db, datos.servicio_id, datos.trabajador_id) # {}) =>
              /\ last'.status = DuplicateProposal
              /\ db'.propuestas = db.propuestas
              /\ Cardinality(PropuestasDe(db', datos.servicio_id, datos.trabajador_id)) = 1]_vars

\* the user the login request names, when the credentials are right
Acreditado(datos) ==
    {u \in DOMAIN db.usuarios :
        /\ db.usuarios[u].correo_electronico = datos.correo
        /\ db.usuarios[u].activo
        /\ datos.password[1] = db.usuarios[u].password_hash[2]}

\* C8: a login with correct credentials fails with AccountLocked while the
\* user's lock-until time is in the future, and succeeds once that time has
\* passed or the lock was cleared.
C8_Bloqueo ==
    [][\A datos \in LoginRequests :
          login(datos) =>
              \A u \in Acreditado(datos) :
                  IF db.usuarios[u].bloqueado_hasta # NULL /\ db.usuarios[u].bloqueado_hasta > now
                  THEN last'.status = AccountLocked
                  ELSE last'.status = OK]_vars

\* C9: complete_and_rate with a service id that matches no request fails with
\* NotFound and changes no request and no rating statistics.
C9_FinalizarInexistente ==
    [][\A datos \in CalificarServicios :
          (/\ finalizar_servicio(datos)
           /\ datos.servicio_id # BadId
           /\ datos.servicio_id \notin Servicios(db)) =>
              /\ last'.status = NotFound
              /\ db' = db]_vars

\* C10: after any operation returns an error, the shared connection is in no
\* open and no aborted transaction.
C10_ErrorDejaConexionLibre ==
    last.status # OK => txStatus = "IDLE"

\* C11: registering, as client or as worker, with an email some user already
\* has fails with DuplicateEmail, and creates no user row and no detail row:
\* every table, the first user's rows included, is as it was.
C11_CorreoDuplicado ==
    [][/\ \A datos \in RegistroClientes, salt \in Sales, codigo \in Codigos :
            (/\ registrar_cliente(datos, salt, codigo)
             /\ UsuariosConCorreo(db, datos.correo_electronico) # {}) =>
                /\ last'.status = DuplicateEmail
                /\ db' = db
                /\ committed' = committed
       /\ \A datos \in RegistroTrabajadores, salt \in Sales, codigo \in Codigos :
            (/\ registrar_trabajador(datos, salt, codigo)
             /\ UsuariosConCorreo(db, datos.correo_electronico) # {}) =>
                /\ last'.status = DuplicateEmail
                /\ db' = db
                /\ committed' = committed]_vars

\* C12: verify_account with the account's valid code returns success, the
\* first time and the second time (when the account is already active), and
\* a call on an already-active account changes nothing in the store.
C12_VerificarIdempotente ==
    [][\A datos \in DatosVerificacion :
          verificar_cuenta(datos) =>
              \A u \in UsuariosConCorreo(db, datos.correo) :
                  /\ (db.usuarios[u].activo
                        \/ db.usuarios[u].codigo_verificacion = datos.codigo) =>
                            /\ last'.status = OK
                            /\ db'.usuarios[u].activo
                  /\ db.usuarios[u].activo =>
                        /\ db' = db
                        /\ committed' = committed]_vars

\* C13: verify_account fails with NotFound when the email belongs to no user,
\* and with InvalidCode when the account is not yet active and the code does
\* not match; never with an internal error, and no account is activated.
C13_ErroresDeVerificacion ==
    [][\A datos \in DatosVerificacion :
          verificar_cuenta(datos) =>
              LET found == UsuariosConCorreo(db, datos.correo) IN
              /\ found = {} =>
                    /\ last'.status = NotFound
                    /\ db' = db
              /\ \A u \in found :
                    (~db.usuarios[u].activo
                        /\ db.usuarios[u].codigo_verificacion # datos.codigo) =>
                            /\ last'.status = InvalidCode
                            /\ db' = db]_vars

\* the email of the login request belongs to no user
CorreoDesconocido(datos) ==
    \A u \in DOMAIN db.usuarios : db.usuarios[u].correo_electronico # datos.correo

\* the email belongs to a user and the password is not that user's
PasswordEquivocado(datos) ==
    \E u \in DOMAIN db.usuarios :
        /\ db.usuarios[u].correo_electronico = datos.correo
        /\ datos.password[1] # db.usuarios[u].password_hash[2]

\* C14: a login with an unknown email and a login with a known email and a
\* wrong password, sent in the same state, are the same step: same status,
\* same error kind, same effect on the connection; the response does not tell
\* whether the email is registered.
C14_LoginNoRevelaCorreo ==
    [][\A d1, d2 \in LoginRequests :
          (CorreoDesconocido(d1) /\ PasswordEquivocado(d2) /\ login(d1)) =>
              /\ login(d2)
              /\ last'.status # OK]_vars

\* a login has just been refused on a connection that had not failed, in a
\* store where the requests name both an unknown email and a known one
C14_Witness ==
    /\ last.op = "login"
    /\ last.status # OK
    /\ txStatus = "INTRANS"
    /\ \E d1, d2 \in LoginRequests : CorreoDesconocido(d1) /\ PasswordEquivocado(d2)

\* C15: create_payment_session changes nothing local, whatever the provider
\* does: the store, the committed store and the connection are as before the
\* call; and unless the provider is configured and answered the created
\* status, the call returns an error.
C15_PagoSinEscrituras ==
    [][\A datos \in SolicitudesPago, sdk \in SDKs, respuesta \in RespuestasMP :
          crear_preferencia_pago(datos, sdk, respuesta) =>
              /\ db' = db
              /\ committed' = committed
              /\ txStatus' = txStatus
              /\ (sdk = NULL \/ respuesta.raises \/ respuesta.status # Created) =>
                    last'.status # OK]_vars

\* a payment session has just been refused in a store that earlier requests
\* changed, with the connection still in the transaction an earlier handler
\* left open
C15_Witness ==
    /\ last = [op |-> "crear_preferencia_pago", status |-> PaymentSessionError]
    /\ db # StoreInicial
    /\ txStatus = "INTRANS"

\* C16: in every reachable state each worker's stored evaluation count is the
\* number of rated requests assigned to that worker, and the stored average
\* is the mean of those ratings.
C16_EstadisticasAlDia ==
    \A w \in DOMAIN db.detalles_trabajador :
        LET dt == db.detalles_trabajador[w]
            n == Cardinality(ConCalificacion(db, w))
        IN /\ dt.total_evaluaciones = n
           /\ dt.calificacion_promedio[1] * n =
                  SumaCalificaciones(db, w) * dt.calificacion_promedio[2]

\* C17: in every reachable state every accepted proposal belongs to a request
\* whose assigned worker is the proposal's worker.
C17_AceptadaEsDelContratado ==
    \A p \in Propuestas(db) :
        db.propuestas[p].aceptada =>
            /\ db.propuestas[p].servicio_id \in Servicios(db)
            /\ db.servicios[db.propuestas[p].servicio_id].trabajador_id =
                    db.propuestas[p].trabajador_id

====
